---- MODULE Spec2Model ----
(***************************************************************************)
(* The disaster-dataset analysis script (src/CODE.py): one top-to-bottom   *)
(* run of the page script over an uploaded CSV table.  Every st.* call     *)
(* that shows data appends one element to the page (out) at the moment it  *)
(* is executed; an exception stops the script where it is raised and       *)
(* leaves the elements already appended on the page.                       *)
(*                                                                         *)
(* A table is [cols |-> set of column names, rows |-> sequence of rows],   *)
(* a row a function from the column names to cells.  A text cell is the    *)
(* sequence of its Unicode code points, so that length, comparison and     *)
(* case conversion are computed as Python computes them; a missing cell    *)
(* is NaN.                                                                 *)
(***************************************************************************)
EXTENDS Integers, Sequences, FiniteSets, TLC

VARIABLES uploaded_file, pc, df, df_clean, out, raised

vars == <<uploaded_file, pc, df, df_clean, out, raised>>

\* Largest number of data rows of an uploaded table.
MaxRows == 2

-----------------------------------------------------------------------------
\* Cells

\* The missing-value marker pandas puts in an empty CSV field (no text holds
\* a negative code point).
NaN == <<-1>>

\* "Unknown", the fill value of line 48
Unknown == <<85, 110, 107, 110, 111, 119, 110>>
\* "Asia", the filter value of line 92
Asia == <<65, 115, 105, 97>>
\* "nan", the text form of a missing cell
NanText == <<110, 97, 110>>

\* Texts of the uploaded tables
AsiaLower == <<97, 115, 105, 97>>                     \* "asia"
Turkiye == <<84, 220, 82, 75, 304, 89, 69>>           \* "TURKIYE" with U+00DC, U+0130
Flood == <<70, 108, 111, 111, 100>>                   \* "Flood"
Drought == <<68, 114, 111, 117, 103, 104, 116>>       \* "Drought"
Kerala == <<75, 101, 114, 97, 108, 97>>               \* "Kerala"

OptionalColumns == {"country", "disastertype", "location", "continent"}

\* The cells a column of an uploaded table is drawn from.
CellValues(c) ==
    CASE c = "country" -> {NaN, Turkiye}
      [] c = "disastertype" -> {Flood, Drought}
      [] c = "location" -> {Kerala, NaN}
      [] c = "continent" -> {Asia, AsiaLower}

AllCells == UNION {CellValues(c) : c \in OptionalColumns}

RowsOver(cols) == {r \in [cols -> AllCells] : \A c \in cols : r[c] \in CellValues(c)}

\* The tables read_csv can return: a header of any of the optional columns
\* and 1..MaxRows data rows.  Columns the script never names are left out.
Tables ==
    UNION {UNION {{[cols |-> cols, rows |-> rows] : rows \in [1..n -> RowsOver(cols)]}
                  : n \in 1..MaxRows}
           : cols \in SUBSET OptionalColumns}

NoTable == [cols |-> {}, rows |-> <<>>]

-----------------------------------------------------------------------------
\* Python text operations

Min(a, b) == IF a < b THEN a ELSE b

\* a < b on str: comparison by code point, a proper prefix is smaller.
LexLess(a, b) ==
    \E k \in 1..Len(b) :
        /\ k - 1 <= Len(a)
        /\ \A j \in 1..(k - 1) : a[j] = b[j]
        /\ (k > Len(a) \/ a[k] < b[k])

LexLeq(a, b) == a = b \/ LexLess(a, b)

IsUpperCase(c) == c \in 65..90 \/ c \in 192..214 \/ c \in 216..222 \/ c = 304
IsLowerCase(c) == c \in 97..122 \/ c \in 224..246 \/ c \in 248..254
\* Unicode property Cased; U+0307 (combining dot above) is not cased.
IsCased(c) == IsUpperCase(c) \/ IsLowerCase(c)

\* Full lowercase mapping: U+0130 lowers to "i" followed by U+0307.
ToLower(c) ==
    IF c = 304 THEN <<105, 775>>
    ELSE IF IsUpperCase(c) THEN <<c + 32>> ELSE <<c>>

\* Titlecase mapping.
ToTitle(c) == IF IsLowerCase(c) THEN <<c - 32>> ELSE <<c>>

RECURSIVE TitleFrom(_, _, _)
TitleFrom(s, i, previous_is_cased) ==
    IF i > Len(s) THEN <<>>
    ELSE (IF previous_is_cased THEN ToLower(s[i]) ELSE ToTitle(s[i]))
         \o TitleFrom(s, i + 1, IsCased(s[i]))

\* str.title(): a character that follows a cased character is lowercased,
\* any other character is titlecased.
title(s) == TitleFrom(s, 1, FALSE)

\* str(cell)
astype_str(cell) == IF cell = NaN THEN NanText ELSE cell

-----------------------------------------------------------------------------
\* Table operations

nrows(t) == Len(t.rows)

Column(t, c) == [i \in 1..nrows(t) |-> t.rows[i][c]]

\* t[c] = vals: sets or appends column c.
SetColumn(t, c, vals) ==
    [cols |-> t.cols \cup {c},
     rows |-> [i \in 1..nrows(t) |->
                 [k \in t.cols \cup {c} |-> IF k = c THEN vals[i] ELSE t.rows[i][k]]]]

\* df.head(): the first five rows
head(t) == [t EXCEPT !.rows = SubSeq(t.rows, 1, Min(5, nrows(t)))]

RangeOf(s) == {s[i] : i \in DOMAIN s}

\* Series.unique(): the distinct values in order of first appearance
RECURSIVE UniqueFrom(_, _, _)
UniqueFrom(col, i, seen) ==
    IF i > Len(col) THEN <<>>
    ELSE IF col[i] \in seen THEN UniqueFrom(col, i + 1, seen)
    ELSE <<col[i]>> \o UniqueFrom(col, i + 1, seen \cup {col[i]})

unique(col) == UniqueFrom(col, 1, {})

\* The texts of S in ascending order
RECURSIVE SortedTexts(_)
SortedTexts(S) ==
    IF S = {} THEN <<>>
    ELSE LET m == CHOOSE x \in S : \A y \in S : LexLeq(x, y)
         IN <<m>> \o SortedTexts(S \ {m})

IndexOf(seq, x) == CHOOSE i \in DOMAIN seq : seq[i] = x

\* df.isnull().sum()
isnull_sum(t) == [c \in t.cols |-> Cardinality({i \in 1..nrows(t) : t.rows[i][c] = NaN})]

\* df.info(): the non-null count of each column
info(t) == [c \in t.cols |-> Cardinality({i \in 1..nrows(t) : t.rows[i][c] # NaN})]

\* df.describe(include='all'): count and unique of each column
describe(t) ==
    [c \in t.cols |->
        [count |-> Cardinality({i \in 1..nrows(t) : t.rows[i][c] # NaN}),
         unique |-> Cardinality(RangeOf(Column(t, c)) \ {NaN})]]

\* df.dropna() in place of the fill: the rows holding a missing cell are dropped
dropna(t, value) ==
    [cols |-> t.cols,
     rows |-> SelectSeq(t.rows, LAMBDA r : \A c \in t.cols : r[c] # NaN)]

\* df.fillna(value): a new table, every missing cell replaced by value
fillna(t, value) ==
    [cols |-> t.cols,
     rows |-> [i \in 1..nrows(t) |->
                 [c \in t.cols |-> IF t.rows[i][c] = NaN THEN value ELSE t.rows[i][c]]]]

\* df_clean['country'].astype(str).str.title()
title_column(t, c) == [i \in 1..nrows(t) |-> title(astype_str(t.rows[i][c]))]

Perms(n) == {p \in [1..n -> 1..n] : \A i, j \in 1..n : i # j => p[i] # p[j]}

Reorder(t, p) == [t EXCEPT !.rows = [i \in 1..nrows(t) |-> t.rows[p[i]]]]

\* sort_values(by=..., ascending=False)
sort_values_desc(t, by) ==
    {Reorder(t, p) : p \in {q \in Perms(nrows(t)) :
        \A i \in 1..(nrows(t) - 1) : LexLeq(t.rows[q[i + 1]][by], t.rows[q[i]][by])}}

\* df.sort_values(by=...): kind defaults to 'quicksort', which pandas documents
\* as not stable, so the result is any ascending arrangement of the rows: the
\* order of rows with equal keys is not determined.
sort_values(t, by) ==
    {Reorder(t, p) : p \in {q \in Perms(nrows(t)) :
        \A i \in 1..(nrows(t) - 1) : LexLeq(t.rows[q[i]][by], t.rows[q[i + 1]][by])}}

\* The column assigned to 'location' itself instead of a new column
create_length_inplace(t) ==
    SetColumn(t, "location",
              [i \in 1..nrows(t) |-> Len(astype_str(t.rows[i]["location"]))])

\* df_clean['location_length'] = df_clean['location'].astype(str).apply(len)
create_length(t) ==
    SetColumn(t, "location_length",
              [i \in 1..nrows(t) |-> Len(astype_str(t.rows[i]["location"]))])

\* pd.factorize: codes by order of first appearance
factorize_codes(col) == [i \in DOMAIN col |-> IndexOf(unique(col), col[i]) - 1]

\* astype('category').cat.codes: the categories of a text column are its
\* distinct values in ascending order, the code of a cell is the position of
\* its value among them, counted from 0.
cat_codes(col) ==
    LET categories == SortedTexts(RangeOf(col))
    IN [i \in DOMAIN col |-> IndexOf(categories, col[i]) - 1]

\* The comparison done on case-normalized text
filter_eq_nocase(t, c, value) ==
    [t EXCEPT !.rows = SelectSeq(t.rows, LAMBDA r : title(r[c]) = title(value))]

\* df_clean[df_clean[c] == value]
filter_eq(t, c, value) ==
    [t EXCEPT !.rows = SelectSeq(t.rows, LAMBDA r : r[c] = value)]

\* The groups of the fill value left out, as groupby leaves out missing keys
groupby_size_dropna(t, by) ==
    LET keys == SortedTexts(RangeOf(Column(t, by)) \ {Unknown})
    IN [k \in DOMAIN keys |->
           [key |-> keys[k],
            size |-> Cardinality({i \in 1..nrows(t) : t.rows[i][by] = keys[k]})]]

\* df_clean.groupby(by).size(): one entry per distinct key, in ascending key
\* order, holding the number of rows with that key
groupby_size(t, by) ==
    LET keys == SortedTexts(RangeOf(Column(t, by)))
    IN [k \in DOMAIN keys |->
           [key |-> keys[k],
            size |-> Cardinality({i \in 1..nrows(t) : t.rows[i][by] = keys[k]})]]

\* Series.value_counts(): the number of rows of each distinct value
value_counts(col) ==
    [v \in RangeOf(col) |-> Cardinality({i \in DOMAIN col : col[i] = v})]

\* len(mcolors.TABLEAU_COLORS)
TableauColors == 10

\* bins of the histogram
Bins == 12

\* Series.plot(kind='kde') estimates the density with scipy's gaussian_kde,
\* which raises ValueError on fewer than two points and LinAlgError when all
\* points are equal (the covariance matrix is singular).
kde_raises(col) == Len(col) < 2 \/ Cardinality(RangeOf(col)) = 1

-----------------------------------------------------------------------------
\* The script run

NoFile == [kind |-> "none", table |-> NoTable]
BadFile == [kind |-> "bad", table |-> NoTable]
CsvFile(t) == [kind |-> "csv", table |-> t]

\* st.dataframe / st.write / st.pyplot / st.info: one more element on the page
Show(page, tag, val) == Append(page, [tag |-> tag, val |-> val])

Init ==
    /\ uploaded_file \in {NoFile, BadFile} \cup {CsvFile(t) : t \in Tables}
    /\ pc = "start"
    /\ df = NoTable
    /\ df_clean = NoTable
    /\ out = <<>>
    /\ raised = "none"

\* line 192: nothing uploaded
UploadPrompt ==
    /\ pc = "start"
    /\ uploaded_file.kind = "none"
    /\ out' = Show(out, "warning", "Upload a CSV file to continue.")
    /\ pc' = "waiting"
    /\ UNCHANGED <<uploaded_file, df, df_clean, raised>>

\* line 22: the file parses
ReadCsv ==
    /\ pc = "start"
    /\ uploaded_file.kind = "csv"
    /\ df' = uploaded_file.table
    /\ pc' = "inspect"
    /\ UNCHANGED <<uploaded_file, df_clean, out, raised>>

\* line 22: pd.read_csv raises on a file it cannot parse
ReadCsvError ==
    /\ pc = "start"
    /\ uploaded_file.kind = "bad"
    /\ raised' = "read_csv"
    /\ pc' = "failed"
    /\ UNCHANGED <<uploaded_file, df, df_clean, out>>

\* lines 24-35
Inspect ==
    /\ pc = "inspect"
    /\ out' = Show(Show(Show(out, "preview", head(df)),
                        "describe", describe(df)),
                   "info_text", info(df))
    /\ pc' = "missing"
    /\ UNCHANGED <<uploaded_file, df, df_clean, raised>>

\* lines 44-45
MissingValues ==
    /\ pc = "missing"
    /\ out' = Show(out, "isnull", isnull_sum(df))
    /\ pc' = "fillna"
    /\ UNCHANGED <<uploaded_file, df, df_clean, raised>>

\* lines 47-49
HandleMissing ==
    /\ pc = "fillna"
    /\ df_clean' = fillna(df, Unknown)
    /\ out' = Show(out, "cleaned", df_clean')
    /\ pc' = "discrepancies"
    /\ UNCHANGED <<uploaded_file, df, raised>>

\* lines 51-55
CheckDiscrepancies ==
    /\ pc = "discrepancies"
    /\ LET o1 == IF "country" \in df_clean.cols
                 THEN Show(out, "unique_country", unique(Column(df_clean, "country")))
                 ELSE out
       IN out' = IF "disastertype" \in df_clean.cols
                 THEN Show(o1, "unique_disastertype",
                           unique(Column(df_clean, "disastertype")))
                 ELSE o1
    /\ pc' = "capitalization"
    /\ UNCHANGED <<uploaded_file, df, df_clean, raised>>

\* lines 57-59
FixCapitalization ==
    /\ pc = "capitalization"
    /\ df_clean' = IF "country" \in df_clean.cols
                   THEN SetColumn(df_clean, "country", title_column(df_clean, "country"))
                   ELSE df_clean
    /\ pc' = "sort"
    /\ UNCHANGED <<uploaded_file, df, out, raised>>

\* lines 68-70
SortByCountry ==
    /\ pc = "sort"
    /\ IF "country" \in df_clean.cols
       THEN \E sorted \in sort_values(df_clean, "country") :
                out' = Show(out, "sorted", sorted)
       ELSE out' = out
    /\ pc' = "newcols"
    /\ UNCHANGED <<uploaded_file, df, df_clean, raised>>

\* lines 72-75
CreateNewColumns ==
    /\ pc = "newcols"
    /\ IF "location" \in df_clean.cols
       THEN /\ df_clean' = create_length(df_clean)
            /\ out' = Show(out, "with_length", df_clean')
       ELSE UNCHANGED <<df_clean, out>>
    /\ pc' = "encode"
    /\ UNCHANGED <<uploaded_file, df, raised>>

\* lines 77-81: df_encoded is a copy, df_clean keeps its columns
EncodeStrings ==
    /\ pc = "encode"
    /\ IF "disastertype" \in df_clean.cols
       THEN LET df_encoded == SetColumn(df_clean, "disastertype_code",
                                        cat_codes(Column(df_clean, "disastertype")))
            IN out' = Show(out, "encoded", df_encoded)
       ELSE out' = out
    /\ pc' = "filter"
    /\ UNCHANGED <<uploaded_file, df, df_clean, raised>>

\* lines 90-94
FilterAsia ==
    /\ pc = "filter"
    /\ IF "continent" \in df_clean.cols
       THEN out' = Show(out, "filter", filter_eq(df_clean, "continent", Asia))
       ELSE out' = Show(out, "notice", "Continent column not found.")
    /\ pc' = "aggregate"
    /\ UNCHANGED <<uploaded_file, df, df_clean, raised>>

\* lines 103-105
Aggregate ==
    /\ pc = "aggregate"
    /\ out' = IF "country" \in df_clean.cols
              THEN Show(out, "groupby", groupby_size(df_clean, "country"))
              ELSE out
    /\ pc' = "bar"
    /\ UNCHANGED <<uploaded_file, df, df_clean, raised>>

\* lines 117-136
BarChart ==
    /\ pc = "bar"
    /\ out' = IF "country" \in df_clean.cols
              THEN LET country_counts == value_counts(Column(df_clean, "country"))
                   IN Show(out, "bar",
                           [counts |-> country_counts,
                            colors |-> Min(TableauColors,
                                           Cardinality(DOMAIN country_counts))])
              ELSE out
    /\ pc' = "donut"
    /\ UNCHANGED <<uploaded_file, df, df_clean, raised>>

\* lines 138-157
DonutChart ==
    /\ pc = "donut"
    /\ out' = IF "disastertype" \in df_clean.cols
              THEN Show(out, "donut", value_counts(Column(df_clean, "disastertype")))
              ELSE out
    /\ pc' = "hist"
    /\ UNCHANGED <<uploaded_file, df, df_clean, raised>>

\* lines 161-187: the density curve is drawn before st.pyplot shows the figure
Histogram ==
    /\ pc = "hist"
    /\ IF "location_length" \in df_clean.cols
       THEN IF kde_raises(Column(df_clean, "location_length"))
            THEN /\ raised' = "kde"
                 /\ pc' = "failed"
                 /\ out' = out
            ELSE /\ out' = Show(out, "hist",
                                [bins |-> Bins,
                                 data |-> Column(df_clean, "location_length")])
                 /\ pc' = "success"
                 /\ raised' = raised
       ELSE /\ pc' = "success"
            /\ UNCHANGED <<out, raised>>
    /\ UNCHANGED <<uploaded_file, df, df_clean>>

\* line 189
Success ==
    /\ pc = "success"
    /\ out' = Show(out, "success", "Streamlit App Running Successfully!")
    /\ pc' = "done"
    /\ UNCHANGED <<uploaded_file, df, df_clean, raised>>

Next ==
    \/ UploadPrompt
    \/ ReadCsv
    \/ ReadCsvError
    \/ Inspect
    \/ MissingValues
    \/ HandleMissing
    \/ CheckDiscrepancies
    \/ FixCapitalization
    \/ SortByCountry
    \/ CreateNewColumns
    \/ EncodeStrings
    \/ FilterAsia
    \/ Aggregate
    \/ BarChart
    \/ DonutChart
    \/ Histogram
    \/ Success

Spec == Init /\ [][Next]_vars

-----------------------------------------------------------------------------
\* Reading the page and the position of the run

Stages ==
    <<"start", "inspect", "missing", "fillna", "discrepancies", "capitalization",
      "sort", "newcols", "encode", "filter", "aggregate", "bar", "donut", "hist",
      "success", "done">>

Pos(stage) == CHOOSE i \in DOMAIN Stages : Stages[i] = stage

\* The stage the run is at; a run stopped by an exception stays at the stage
\* that raised.
At ==
    IF pc = "failed" THEN (IF raised = "kde" THEN Pos("hist") ELSE Pos("start"))
    ELSE IF pc = "waiting" THEN Pos("start")
    ELSE Pos(pc)

\* The stage has run to its end.
Completed(stage) == At > Pos(stage)

Loaded == uploaded_file.kind = "csv" /\ Completed("start")

Shown(tag) == \E i \in DOMAIN out : out[i].tag = tag

ValOf(tag) == out[CHOOSE i \in DOMAIN out : out[i].tag = tag].val

NoticeCount == Cardinality({i \in DOMAIN out : out[i].tag = "notice"})

Restrict(r, cols) == [c \in cols |-> r[c]]

RECURSIVE SumSizes(_, _)
SumSizes(g, k) == IF k > Len(g) THEN 0 ELSE g[k].size + SumSizes(g, k + 1)

\* Index of the first row holding value v in column col
FirstIndex(col, v) == CHOOSE i \in DOMAIN col : col[i] = v /\ \A j \in 1..(i - 1) : col[j] # v

\* The codes are a one-to-one map of the distinct values onto 0..k-1.
CodesBijective(vals, codes) ==
    /\ RangeOf(codes) = 0..(Cardinality(RangeOf(vals)) - 1)
    /\ \A i, j \in DOMAIN vals : (vals[i] = vals[j]) <=> (codes[i] = codes[j])

-----------------------------------------------------------------------------
\* Claims

C2_RenderersComplete == Loaded => raised = "none"

\* C3 (as stated): a run never has outputs on the page and a failed stage.
C3_Atomic == pc = "failed" => out = <<>>

\* C4 (as stated): with an optional column absent the cleaner and wrangler
\* stages that need it do nothing, the filter and the aggregator each emit a
\* notice for their absent column, no stage raises, and the stages that do
\* not need the absent column still produce their output.
C4_AbsentColumns ==
    (Loaded /\ df.cols # OptionalColumns) =>
        /\ raised = "none"
        /\ ("country" \notin df.cols) => ~Shown("sorted")
        /\ ("location" \notin df.cols) => "location_length" \notin df_clean.cols
        /\ ("disastertype" \notin df.cols) => ~Shown("encoded")
        /\ Completed("aggregate") =>
              NoticeCount >= (IF "continent" \in df.cols THEN 0 ELSE 1)
                             + (IF "country" \in df.cols THEN 0 ELSE 1)
        /\ ("continent" \in df.cols /\ Completed("filter")) => Shown("filter")
        /\ ("country" \in df.cols /\ Completed("aggregate")) => Shown("groupby")
        /\ ("location" \in df.cols /\ Completed("hist")) => Shown("hist")

\* C5: the table shown after the fill has no missing cell, the columns and
\* the number of rows of the loaded table, and every cell that was present
\* unchanged; the loaded table stays as it was read.
C5_FillNulls ==
    (Loaded /\ Completed("fillna")) =>
        LET c == ValOf("cleaned")
        IN /\ Shown("cleaned")
           /\ c.cols = df.cols
           /\ nrows(c) = nrows(df)
           /\ \A i \in 1..nrows(df) : \A col \in df.cols :
                 /\ c.rows[i][col] # NaN
                 /\ df.rows[i][col] # NaN => c.rows[i][col] = df.rows[i][col]
           /\ df = uploaded_file.table

\* C5 witness: a filled table whose source had a missing and a present cell.
C5_Witness ==
    /\ Loaded /\ Completed("fillna")
    /\ \E i \in 1..nrows(df) : \E col \in df.cols : df.rows[i][col] = NaN
    /\ \E i \in 1..nrows(df) : \E col \in df.cols : df.rows[i][col] # NaN

\* C6: the per-country counts sum to the row count, every distinct value of
\* the normalized country column is a key exactly once, and every count is
\* at least 1.
C6_CountByGroup ==
    (Loaded /\ "country" \in df.cols /\ Completed("aggregate")) =>
        /\ Shown("groupby")
        /\ LET g == ValOf("groupby")
           IN /\ SumSizes(g, 1) = nrows(df_clean)
              /\ \A v \in RangeOf(Column(df_clean, "country")) :
                    Cardinality({k \in DOMAIN g : g[k].key = v}) = 1
              /\ \A k \in DOMAIN g : g[k].size >= 1

\* C6 witness: counts over two countries, one of them the fill value.
C6_Witness ==
    /\ Shown("groupby")
    /\ Len(ValOf("groupby")) >= 2
    /\ \E k \in DOMAIN ValOf("groupby") : ValOf("groupby")[k].key = Unknown

\* C7: with continent present the shown subset holds exactly the rows of the
\* working table whose continent is "Asia" (case-sensitive), in their order;
\* with continent absent a notice is shown instead, nothing is raised and the
\* run goes on to the aggregation.
C7_FilterEquals ==
    /\ (Loaded /\ "continent" \in df.cols /\ Completed("filter")) =>
          /\ Shown("filter")
          /\ LET f == ValOf("filter").rows
                 rows == df_clean.rows
             IN /\ \A k \in DOMAIN f : f[k]["continent"] = Asia
                /\ Len(f) = Cardinality({i \in DOMAIN rows : rows[i]["continent"] = Asia})
                /\ \E idx \in [DOMAIN f -> DOMAIN rows] :
                      /\ \A k \in DOMAIN f : f[k] = rows[idx[k]]
                      /\ \A k, l \in DOMAIN f : k < l => idx[k] < idx[l]
    /\ (Loaded /\ "continent" \notin df.cols /\ At >= Pos("filter")) =>
          /\ ~Shown("filter")
          /\ pc # "filter" => (NoticeCount = 1 /\ At >= Pos("aggregate"))

\* C7 witness: a subset of one row taken from a table that also holds "asia".
C7_Witness ==
    /\ Shown("filter")
    /\ Len(ValOf("filter").rows) = 1
    /\ \E i \in 1..nrows(df_clean) : df_clean.rows[i]["continent"] = AsiaLower

\* C8: with location present the working table gains location_length, with
\* the row count of the input, holding the length of each location text (7
\* for a missing cell filled with "Unknown", 6 for "Kerala"), and location
\* itself is unchanged; with location absent no column is added.
C8_DeriveLength ==
    /\ (Loaded /\ "location" \in df.cols /\ Completed("newcols")) =>
          /\ "location_length" \in df_clean.cols
          /\ "location" \in df_clean.cols
          /\ Shown("with_length")
          /\ nrows(df_clean) = nrows(df)
          /\ \A i \in 1..nrows(df) :
                /\ df_clean.rows[i]["location_length"] =
                      (IF df.rows[i]["location"] = NaN THEN 7
                       ELSE Len(df.rows[i]["location"]))
                /\ df.rows[i]["location"] = Kerala =>
                      df_clean.rows[i]["location_length"] = 6
                /\ df_clean.rows[i]["location"] = ValOf("cleaned").rows[i]["location"]
    /\ (Loaded /\ "location" \notin df.cols) =>
          /\ "location_length" \notin df_clean.cols
          /\ ~Shown("with_length")

\* C8 witness: lengths derived from a missing location and from "Kerala".
C8_Witness ==
    /\ Loaded /\ "location" \in df.cols /\ Completed("newcols")
    /\ \E i, j \in 1..nrows(df) :
          df.rows[i]["location"] = NaN /\ df.rows[j]["location"] = Kerala

\* C9 (as stated): title-casing the country column a second time changes
\* nothing, and the normalization changed no column other than country.
C9_NormalizeIdempotent ==
    (Loaded /\ "country" \in df.cols /\ Completed("capitalization")) =>
        /\ \A i \in 1..nrows(df_clean) : \A c \in df.cols \ {"country"} :
              df_clean.rows[i][c] = ValOf("cleaned").rows[i][c]
        /\ title_column(df_clean, "country") = Column(df_clean, "country")

====
